---- MODULE Spec2Model ----
(***************************************************************************)
(* JSONGenerator (composer-common serializer): the visitor that writes a  *)
(* resource graph to a JSONWriter, as exercised by the JSONGenerator test  *)
(* suite (src/unnamed/part_000).                                           *)
(*                                                                         *)
(* A call is split into the steps of its depth-first recursion: one frame  *)
(* of `frames` per active visitRelationshipDeclaration or                  *)
(* visitClassDeclaration, one action per step of those methods.            *)
(*                                                                         *)
(* Text is kept symbolically: a reference text or type name is a record    *)
(* [ns, type, id]; the writer's buffer is the sequence of chunks written.  *)
(*                                                                         *)
(* profileValidator.js (composer-validate): validateProfile and the rules  *)
(* it applies, with the module-level errorList; a call is one step. A      *)
(* behaviour exercises one of the two modules, named by `program`.         *)
(***************************************************************************)
EXTENDS Integers, Sequences, FiniteSets, TLC

\* Number of resources on the heap (DOGE_1 .. DOGE_NumRes).
NumRes == 3

\* Longest top-level array handed to visitRelationshipDeclaration, apart
\* from the array of all resources.
MaxRoot == 2

\* validateProfile is called while errorList is no longer than this.
MaxErrors == 1

Res == 1..NumRes

NsAcme == "org.acme"
NsElsewhere == "org.elsewhere"

(***************************************************************************)
(* Text                                                                    *)
(***************************************************************************)
NoText == [ns |-> "", type |-> "", id |-> 0]

\* getIdentifier(): the bare identifier, "DOGE_i".
Identifier(i) == [ns |-> "", type |-> "", id |-> i]

\* getFullyQualifiedIdentifier(): "{namespace}.{typeName}#{id}".
FullyQualifiedIdentifier(v) == [ns |-> v.ns, type |-> v.type, id |-> v.id]

\* getFullyQualifiedName() of a class declaration: "{namespace}.{name}".
FullyQualifiedName(ns, type) == [ns |-> ns, type |-> type, id |-> 0]

(***************************************************************************)
(* The model file of the test suite                                        *)
(***************************************************************************)
\* --> MyAsset1 myAsset (MyTx1)
relationshipDeclaration1 ==
    [name |-> "myAsset", isArray |-> FALSE, ns |-> NsAcme, type |-> "MyAsset1"]
\* --> MyAsset1[] myAssets (MyTx2)
relationshipDeclaration2 ==
    [name |-> "myAssets", isArray |-> TRUE, ns |-> NsAcme, type |-> "MyAsset1"]
\* --> SimpleAssetCircle next
relationshipDeclaration3 ==
    [name |-> "next", isArray |-> FALSE, ns |-> NsAcme, type |-> "SimpleAssetCircle"]
\* --> SimpleAssetCircleArray[] next
relationshipDeclaration4 ==
    [name |-> "next", isArray |-> TRUE, ns |-> NsAcme, type |-> "SimpleAssetCircleArray"]

RelationshipDeclarations ==
    {relationshipDeclaration1, relationshipDeclaration2,
     relationshipDeclaration3, relationshipDeclaration4}

\* The String field every asset declares first.
assetIdField == [name |-> "assetId", isArray |-> FALSE, ns |-> "", type |-> "String"]

\* getProperties() of the class a relationship targets, in declaration order.
getProperties(type) ==
    CASE type = "SimpleAssetCircle" -> <<assetIdField, relationshipDeclaration3>>
      [] type = "SimpleAssetCircleArray" -> <<assetIdField, relationshipDeclaration4>>
      [] OTHER -> <<assetIdField>>

(***************************************************************************)
(* Runtime values                                                          *)
(***************************************************************************)
\* A Relationship pointer.
Relationship(ns, type, i) == [kind |-> "Relationship", ns |-> ns, type |-> type, id |-> i]

\* A materialized Resource; its fields live on the heap under its id.
Resource(ns, i) == [kind |-> "Resource", ns |-> ns, type |-> "SimpleAssetCircle", id |-> i]

Pointers ==
    {Relationship(NsAcme, "MyAsset1", 1), Relationship(NsAcme, "MyAsset1", 2),
     Relationship(NsElsewhere, "MyAsset1", 1)}

Resources(ns) == {Resource(ns, i) : i \in Res}

Items(ns) == Resources(ns) \cup Pointers

\* Sequences of members of S of length 0..n.
SeqUpTo(S, n) == UNION {[1..k -> S] : k \in 0..n}

(***************************************************************************)
(* JSONWriter: the buffer and the firstItem flag                           *)
(***************************************************************************)
Chunk(c, k, t) == [c |-> c, k |-> k, t |-> t]

write(w, chunk) == [w EXCEPT !.buf = Append(w.buf, chunk)]

\* writeComma(): a separator unless this is the first item of its container.
writeComma(w) ==
    IF w.first THEN [w EXCEPT !.first = FALSE] ELSE write(w, Chunk(",", "", NoText))

openObject(w) == [write(w, Chunk("{", "", NoText)) EXCEPT !.first = TRUE]

\* A writer that forgets the closing brace.
closeObject_Missing(w) == [w EXCEPT !.first = FALSE]

closeObject(w) == [write(w, Chunk("}", "", NoText)) EXCEPT !.first = FALSE]

openArray(w) == [write(w, Chunk("[", "", NoText)) EXCEPT !.first = TRUE]

closeArray(w) == [write(w, Chunk("]", "", NoText)) EXCEPT !.first = FALSE]

\* writeKey(key): "key":
writeKey(w, key) == write(writeComma(w), Chunk("key", key, NoText))

\* writeStringValue(value): "value", with no separator of its own.
writeStringValue(w, t) == [write(w, Chunk("string", "", t)) EXCEPT !.first = FALSE]

\* writeKeyStringValue(key, value): "key":"value"
writeKeyStringValue(w, key, t) == write(writeComma(w), Chunk("keystring", key, t))

\* writeArrayStringValue(value): "value" as an array element.
writeArrayStringValue(w, t) == write(writeComma(w), Chunk("string", "", t))

(***************************************************************************)
(* getRelationshipText                                                     *)
(***************************************************************************)
\* A generator that never qualifies the identifier.
relationshipText_Unqualified(decl, v) == Identifier(v.id)

\* The namespace rule: the bare identifier inside the declaration's
\* namespace, the fully qualified identifier outside it.
relationshipText(decl, v) ==
    IF decl.ns = v.ns THEN Identifier(v.id) ELSE FullyQualifiedIdentifier(v)

\* A generator that takes a resource for a relationship under either option.
allowRelationships_Either(conv, permit) == conv \/ permit

\* Whether the generator's options let a Resource stand for a relationship:
\* only convertResourcesToRelationships does.
allowRelationships(conv, permit) == conv

\* getRelationshipText(relationshipDeclaration, relationshipOrResource) of a
\* generator built with the options (conv, permit): a Resource is refused
\* ("Did not find a relationship") unless the options allow it.
getRelationshipText(decl, v, conv, permit) ==
    IF v.kind = "Resource" /\ ~allowRelationships(conv, permit)
    THEN [ok |-> FALSE, text |-> NoText]
    ELSE [ok |-> TRUE, text |-> relationshipText(decl, v)]

(***************************************************************************)
(* State                                                                   *)
(***************************************************************************)
VARIABLES
    convertResourcesToRelationships,  \* constructor argument 1
    permitResourcesForRelationships,  \* constructor argument 2
    heap,          \* heap[i]: the value of resource i's `next` field, as the
                   \* sequence of its elements (a singular value is a sequence
                   \* of one element, an unset field the empty sequence)
    heapNs,        \* the namespace the resources live in
    status,        \* "idle", "running", "returned", or the error thrown
    call,          \* the entry point and arguments of the call made
    frames,        \* the call stack, innermost frame last
    writer,        \* parameters.writer: [buf, first]
    seenResources, \* parameters.seenResources
    result,        \* return value of getRelationshipText
    opened,        \* opened[i]: how many objects were opened for resource i
    populated,     \* the names of the resources' fields, in the order the
                   \* fields were assigned
    previous,      \* the text the call before this one wrote, if there was one
    program,       \* the module under test: "JSONGenerator" or "profileValidator"
    errorList,     \* profileValidator.js: let errorList = new Array()
    invocation     \* the latest call into profileValidator.js and how it ended

vars == <<convertResourcesToRelationships, permitResourcesForRelationships,
          heap, heapNs, status, call, frames, writer, seenResources, result,
          opened, populated, previous, program, errorList, invocation>>

\* The state of profileValidator.js and of its caller.
validator == <<program, errorList, invocation>>

\* The state of a JSONGenerator and of its caller.
generator == <<convertResourcesToRelationships, permitResourcesForRelationships,
               heap, heapNs, status, call, frames, writer, seenResources, result,
               opened, populated, previous>>

\* What a second call of the same visit starts from.
again == <<populated, previous>>

options == <<convertResourcesToRelationships, permitResourcesForRelationships>>

(***************************************************************************)
(* Inputs                                                                  *)
(***************************************************************************)
\* Heaps for SimpleAssetCircle: every `next` is unset, a resource or a pointer.
SingleHeaps(ns) ==
    [Res -> {<<>>} \cup {<<v>> : v \in Resources(ns) \cup {Relationship(NsElsewhere, "MyAsset1", 1)}}]

\* Heaps for SimpleAssetCircleArray: resource i lists the `fan` resources that
\* follow it cyclically, starting with itself (off = 0) or its successor.
RotHeap(ns, off, fan) ==
    [i \in Res |-> [k \in 1..fan |-> Resource(ns, ((i + off + k - 2) % NumRes) + 1)]]

RotHeaps(ns) == {RotHeap(ns, off, fan) : off \in 0..1, fan \in 0..(NumRes - 1)}

EmptyHeap == [i \in Res |-> <<>>]

\* The resources' fields conform to the class the declaration targets.
Conforms(decl, h, ns) ==
    CASE decl = relationshipDeclaration3 -> h \in SingleHeaps(ns)
      [] decl = relationshipDeclaration4 -> h \in RotHeaps(ns)
      [] OTHER -> h = EmptyHeap

Range(f) == {f[x] : x \in DOMAIN f}

\* The resources one step away from those of T.
Successors(T) ==
    {v.id : v \in {w \in UNION {Range(heap[i]) : i \in T} : w.kind = "Resource"}}

RECURSIVE Closure(_, _)
Closure(T, n) == IF n = 0 THEN T ELSE Closure(T \cup Successors(T), n - 1)

\* The resources of the graph that starts at the elements of obj.
Reachable(obj) ==
    Closure({v.id : v \in {w \in Range(obj) : w.kind = "Resource"}}, NumRes)

\* The heap holds the graph handed to the call and nothing else: a resource
\* the value does not lead to has no fields set.
HeapOf(obj) == \A i \in Res \ Reachable(obj) : heap[i] = <<>>

AllResources(ns) == [i \in Res |-> Resource(ns, i)]

\* The elements of the short top-level arrays: two resources (the array
\* heaps look the same from every resource) and two pointers.
RootItems(ns) ==
    {Resource(ns, 1), Resource(ns, 2),
     Relationship(NsAcme, "MyAsset1", 1), Relationship(NsAcme, "MyAsset1", 2)}

\* The values a test pushes on the stack before visiting a declaration.
RootValues(decl, ns) ==
    IF decl.isArray
    THEN SeqUpTo(RootItems(ns), MaxRoot) \cup {AllResources(ns)}
    ELSE {<<v>> : v \in Items(ns)}

\* The heaps a test may build: every singular heap in either namespace, the
\* array heaps with longer lists in org.acme only.
Heaps(ns) == SingleHeaps(ns) \cup (IF ns = NsAcme THEN RotHeaps(ns) ELSE {})

NoCall == [fn |-> "", thing |-> "", decl |-> assetIdField, obj |-> <<>>]

\* The tests assign assetId, then next.
DeclaredOrder == <<"assetId", "next">>

Populations == {DeclaredOrder, <<"next", "assetId">>}

NoOutput == [made |-> FALSE, buf |-> <<>>]

EmptyWriter == [buf |-> <<>>, first |-> TRUE]

\* No profile loaded: a profile object with nothing in it.
NoProfile ==
    [name |-> "", xtype |-> "", sections |-> {}, organization |-> "",
     organizations |-> {}, orderers |-> <<>>]

\* No call into profileValidator.js was made yet.
NoInvocation ==
    [fn |-> "", filename |-> <<>>, rule |-> "", profile |-> NoProfile, loaded |-> FALSE,
     thrown |-> "", fileRead |-> FALSE, applied |-> <<>>, printed |-> <<>>]

Init ==
    /\ convertResourcesToRelationships \in BOOLEAN
    /\ permitResourcesForRelationships \in BOOLEAN
    /\ heapNs \in {NsAcme, NsElsewhere}
    /\ heap \in Heaps(heapNs)
    /\ status = "idle"
    /\ call = NoCall
    /\ frames = <<>>
    /\ writer = EmptyWriter
    /\ seenResources = {}
    /\ result = NoText
    /\ opened = [i \in Res |-> 0]
    /\ populated = DeclaredOrder
    /\ previous = NoOutput
    /\ program \in {"JSONGenerator", "profileValidator"}
    /\ program = "profileValidator" =>
          /\ ~convertResourcesToRelationships
          /\ ~permitResourcesForRelationships
          /\ heapNs = NsAcme
          /\ heap = EmptyHeap
    /\ errorList = <<>>
    /\ invocation = NoInvocation

(***************************************************************************)
(* Frames                                                                  *)
(***************************************************************************)
Frame(fn, decl, obj, pc) == [fn |-> fn, decl |-> decl, obj |-> obj, idx |-> 1, pc |-> pc]

Top == frames[Len(frames)]

Below == SubSeq(frames, 1, Len(frames) - 1)

Running(fn, pc) ==
    /\ status = "running"
    /\ frames # <<>>
    /\ Top.fn = fn
    /\ Top.pc = pc

\* The innermost method returns to its caller; the call ends with the last.
ReturnFrames == Below

StatusAfter(fs) == IF fs = <<>> THEN "returned" ELSE "running"

\* A generator that catches the exception where the value is handled, drops
\* the value and carries on.
raise_Caught(fs, error) ==
    IF fs = <<>>
    THEN [status |-> "returned", frames |-> <<>>]
    ELSE [status |-> "running",
          frames |-> SubSeq(fs, 1, Len(fs) - 1)
                     \o <<[fs[Len(fs)] EXCEPT !.idx = fs[Len(fs)].idx + 1]>>]

\* throw new Error(...): the call ends with the error and every frame is
\* unwound, nothing in the generator catches it.
raise(fs, error) == [status |-> error, frames |-> <<>>]

Throw(error) ==
    /\ status' = raise(frames, error).status
    /\ frames' = raise(frames, error).frames
    /\ UNCHANGED <<writer, seenResources, opened>>

(***************************************************************************)
(* Entry points                                                            *)
(***************************************************************************)
\* visit(thing, parameters) with a relationship declaration, the value on the
\* stack, and fresh writer and seenResources: visitRelationshipDeclaration.
Visit ==
    /\ program = "JSONGenerator"
    /\ status = "idle"
    /\ \E decl \in RelationshipDeclarations :
         /\ Conforms(decl, heap, heapNs)
         /\ \E obj \in RootValues(decl, heapNs) :
              /\ HeapOf(obj)
              /\ call' = [fn |-> "visit", thing |-> "RelationshipDeclaration",
                           decl |-> decl, obj |-> obj]
              /\ frames' = <<Frame("visitRelationshipDeclaration", decl, obj, "enter")>>
    /\ status' = "running"
    /\ UNCHANGED <<validator, again, options, heap, heapNs, writer, seenResources, result, opened>>

\* A generator that writes the thing it is handed before it looks at it.
VisitUnrecognised_WritesFirst ==
    /\ program = "JSONGenerator"
    /\ status = "idle"
    /\ call' = [fn |-> "visit", thing |-> "3.142", decl |-> assetIdField, obj |-> <<>>]
    /\ status' = "UnrecognisedValueError"
    /\ writer' = writeStringValue(writer, NoText)
    /\ UNCHANGED <<validator, again, options, heap, heapNs, frames, seenResources, result, opened>>

\* visit(3.142, {}): the thing is no declaration the generator knows.
VisitUnrecognised ==
    /\ program = "JSONGenerator"
    /\ status = "idle"
    /\ call' = [fn |-> "visit", thing |-> "3.142", decl |-> assetIdField, obj |-> <<>>]
    /\ Throw("UnrecognisedValueError")
    /\ UNCHANGED <<validator, again, options, heap, heapNs, result>>

\* getRelationshipText(relationshipDeclaration, relationshipOrResource),
\* called directly.
GetRelationshipText ==
    /\ program = "JSONGenerator"
    /\ status = "idle"
    /\ heap = EmptyHeap
    /\ \E decl \in RelationshipDeclarations, v \in Items(heapNs) :
         LET r == getRelationshipText(decl, v, convertResourcesToRelationships,
                                    permitResourcesForRelationships) IN
         /\ call' = [fn |-> "getRelationshipText", thing |-> "",
                      decl |-> decl, obj |-> <<v>>]
         /\ IF r.ok
            THEN /\ result' = r.text
                 /\ status' = "returned"
                 /\ UNCHANGED <<frames, writer, seenResources, opened>>
            ELSE /\ Throw("RelationshipTypeError")
                 /\ UNCHANGED result
    /\ UNCHANGED <<validator, again, options, heap, heapNs>>

(***************************************************************************)
(* visitRelationshipDeclaration                                            *)
(***************************************************************************)
\* The value is popped and the key written; an array is opened.
RelationshipEnter ==
    /\ Running("visitRelationshipDeclaration", "enter")
    /\ LET f == Top
           w == writeKey(writer, f.decl.name) IN
       /\ writer' = IF f.decl.isArray THEN openArray(w) ELSE w
       /\ frames' = Below \o <<[f EXCEPT !.pc = "value"]>>
    /\ UNCHANGED <<validator, again, options, heap, heapNs, status, call, seenResources, result, opened>>

\* A generator that inlines every Resource, permitted or not.
inlines_Always(permit, v) == v.kind = "Resource"

\* A Resource is inlined only by a generator that permits resources for
\* relationships.
inlines(permit, v) == permit /\ v.kind = "Resource"

\* parameters.seenResources.has / add / delete
seenHas(seen, fqi) == fqi \in seen

\* A generator that forgets to remember the resource it starts to inline.
seenAdd_Forgets(seen, fqi) == seen

seenAdd(seen, fqi) == seen \cup {fqi}

\* A generator that goes on remembering a resource after its object is
\* closed.
seenDelete_Keeps(seen, fqi) == seen

seenDelete(seen, fqi) == seen \ {fqi}

\* The separator before an inlined element: writeComma for an array element,
\* nothing for a singular value.
beforeInlined(w, decl) == IF decl.isArray THEN writeComma(w) ELSE w

\* A generator that writes the back-reference as an array element, with the
\* element's separator.
writeSeen_Separated(w, decl, v) == writeArrayStringValue(w, relationshipText(decl, v))

\* The reference written for a resource that is already being inlined.
writeSeen(w, decl, v) == writeStringValue(w, relationshipText(decl, v))

\* A generator that writes every text as an array element.
writeText_AsElement(w, decl, t) == writeArrayStringValue(w, t)

\* The text written for a value that is not inlined.
writeText(w, decl, t) ==
    IF decl.isArray THEN writeArrayStringValue(w, t) ELSE writeStringValue(w, t)

\* One value of the property, the only one or element idx of the array.
\*  - a Resource, inlining permitted, already being inlined: its reference;
\*  - a Resource, inlining permitted, otherwise: remembered, then its class
\*    declaration is visited with the resource on the stack;
\*  - anything else: the text getRelationshipText yields, or its error.
RelationshipValue ==
    /\ Running("visitRelationshipDeclaration", "value")
    /\ Top.idx <= Len(Top.obj)
    /\ LET f == Top
           v == f.obj[f.idx]
           fqi == FullyQualifiedIdentifier(v)
           done == [f EXCEPT !.idx = f.idx + 1]
           r == getRelationshipText(f.decl, v, convertResourcesToRelationships,
                                    permitResourcesForRelationships)
           e == raise(frames, "RelationshipTypeError") IN
       IF inlines(permitResourcesForRelationships, v)
       THEN IF seenHas(seenResources, fqi)
            THEN /\ writer' = writeSeen(writer, f.decl, v)
                 /\ frames' = Below \o <<done>>
                 /\ UNCHANGED <<status, seenResources>>
            ELSE /\ seenResources' = seenAdd(seenResources, fqi)
                 /\ writer' = beforeInlined(writer, f.decl)
                 /\ frames' = Below \o <<[f EXCEPT !.pc = "accepted"],
                                         Frame("visitClassDeclaration", f.decl, <<v>>, "open")>>
                 /\ UNCHANGED status
       ELSE IF r.ok
            THEN /\ writer' = writeText(writer, f.decl, r.text)
                 /\ frames' = Below \o <<done>>
                 /\ UNCHANGED <<status, seenResources>>
            ELSE /\ status' = e.status
                 /\ frames' = e.frames
                 /\ UNCHANGED <<writer, seenResources>>
    /\ UNCHANGED <<validator, again, options, heap, heapNs, call, result, opened>>

\* The class declaration's visit has returned: the resource is forgotten.
RelationshipAccepted ==
    /\ Running("visitRelationshipDeclaration", "accepted")
    /\ LET f == Top
           v == f.obj[f.idx] IN
       /\ seenResources' = seenDelete(seenResources, FullyQualifiedIdentifier(v))
       /\ frames' = Below \o <<[f EXCEPT !.idx = f.idx + 1, !.pc = "value"]>>
    /\ UNCHANGED <<validator, again, options, heap, heapNs, status, call, writer, result, opened>>

\* Every value is written: an array is closed, and the method returns.
RelationshipReturn ==
    /\ Running("visitRelationshipDeclaration", "value")
    /\ Top.idx > Len(Top.obj)
    /\ writer' = IF Top.decl.isArray THEN closeArray(writer) ELSE writer
    /\ frames' = ReturnFrames
    /\ status' = StatusAfter(ReturnFrames)
    /\ UNCHANGED <<validator, again, options, heap, heapNs, call, seenResources, result, opened>>

(***************************************************************************)
(* visitClassDeclaration and visitField                                    *)
(***************************************************************************)
\* The names of the class's properties that the resource has as fields, in
\* the order the fields were assigned.
OwnFieldNames(type) ==
    SelectSeq(populated, LAMBDA n : \E p \in Range(getProperties(type)) : p.name = n)

\* A generator that walks the resource's own fields, in the order they were
\* assigned.
visitedProperties_OwnOrder(type) ==
    [n \in 1..Len(OwnFieldNames(type)) |->
        CHOOSE p \in Range(getProperties(type)) : p.name = OwnFieldNames(type)[n]]

\* The properties visitClassDeclaration walks: those of the class
\* declaration, in the order the model file declares them.
visitedProperties(type) == getProperties(type)

\* The object is opened and its $class written: the name of the class whose
\* declaration is being visited, the one the relationship declares.
ClassOpen ==
    /\ Running("visitClassDeclaration", "open")
    /\ LET f == Top IN
       /\ writer' = writeKeyStringValue(openObject(writer), "$class",
                                        FullyQualifiedName(f.decl.ns, f.decl.type))
       /\ opened' = [opened EXCEPT ![f.obj[1].id] = @ + 1]
       /\ frames' = Below \o <<[f EXCEPT !.pc = "properties"]>>
    /\ UNCHANGED <<validator, again, options, heap, heapNs, status, call, seenResources, result>>

\* The value of property idx of the class, in declaration order.
PropertyValue(f) ==
    LET p == visitedProperties(f.decl.type)[f.idx] IN
    IF p = assetIdField THEN <<Identifier(f.obj[1].id)>> ELSE heap[f.obj[1].id]

\* A property whose value is null is skipped.
IsNull(p, value) == ~p.isArray /\ value = <<>>

\* visitField for the next property: "assetId":"DOGE_i".
VisitField ==
    /\ Running("visitClassDeclaration", "properties")
    /\ Top.idx <= Len(visitedProperties(Top.decl.type))
    /\ visitedProperties(Top.decl.type)[Top.idx] = assetIdField
    /\ LET f == Top IN
       /\ writer' = writeKeyStringValue(writer, assetIdField.name, PropertyValue(f)[1])
       /\ frames' = Below \o <<[f EXCEPT !.idx = f.idx + 1]>>
    /\ UNCHANGED <<validator, again, options, heap, heapNs, status, call, seenResources, result, opened>>

\* The next property is a relationship: its value is pushed and the
\* declaration visited, unless the value is null.
ClassRelationship ==
    /\ Running("visitClassDeclaration", "properties")
    /\ Top.idx <= Len(visitedProperties(Top.decl.type))
    /\ visitedProperties(Top.decl.type)[Top.idx] # assetIdField
    /\ LET f == Top
           p == visitedProperties(f.decl.type)[f.idx]
           next == [f EXCEPT !.idx = f.idx + 1] IN
       frames' = IF IsNull(p, PropertyValue(f))
                 THEN Below \o <<next>>
                 ELSE Below \o <<next, Frame("visitRelationshipDeclaration", p,
                                             PropertyValue(f), "enter")>>
    /\ UNCHANGED <<validator, again, options, heap, heapNs, status, call, writer, seenResources, result, opened>>

\* Every property is written: the object is closed, and the method returns.
ClassClose ==
    /\ Running("visitClassDeclaration", "properties")
    /\ Top.idx > Len(visitedProperties(Top.decl.type))
    /\ writer' = closeObject(writer)
    /\ frames' = ReturnFrames
    /\ status' = StatusAfter(ReturnFrames)
    /\ UNCHANGED <<validator, again, options, heap, heapNs, call, seenResources, result, opened>>

(***************************************************************************)
(* A second call                                                           *)
(***************************************************************************)
\* No resource of the graph that starts at obj leads back to itself.
Acyclic(obj) == \A i \in Reachable(obj) : i \notin Closure(Successors({i}), NumRes)

\* The graphs serialized a second time: the acyclic ones, and the chains and
\* cycles of singular relationships.
Repeatable == Acyclic(call.obj) \/ ~call.decl.isArray

\* The parameters a caller hands to a visit: a new writer, a new Set.
Parameters == [writer |-> EmptyWriter, seenResources |-> {}]

\* A generator that keeps, from call to call, the resources it has inlined.
VisitAgain_Remembers ==
    /\ status = "returned"
    /\ call.fn = "visit"
    /\ ~previous.made
    /\ Repeatable
    /\ previous' = [made |-> TRUE, buf |-> writer.buf]
    /\ populated' \in Populations
    /\ writer' = Parameters.writer
    /\ seenResources' =
          {FullyQualifiedIdentifier(Resource(heapNs, i)) : i \in {j \in Res : opened[j] > 0}}
    /\ opened' = [i \in Res |-> 0]
    /\ frames' = <<Frame("visitRelationshipDeclaration", call.decl, call.obj, "enter")>>
    /\ status' = "running"
    /\ UNCHANGED <<validator, options, heap, heapNs, call, result>>

\* The visit that has returned is made again by the same generator: the same
\* declaration, the same graph, its resources built anew with their fields
\* assigned in either order, and parameters of its own. The text of the
\* first call is kept for comparison.
VisitAgain ==
    /\ status = "returned"
    /\ call.fn = "visit"
    /\ ~previous.made
    /\ Repeatable
    /\ previous' = [made |-> TRUE, buf |-> writer.buf]
    /\ populated' \in Populations
    /\ writer' = Parameters.writer
    /\ seenResources' = Parameters.seenResources
    /\ opened' = [i \in Res |-> 0]
    /\ frames' = <<Frame("visitRelationshipDeclaration", call.decl, call.obj, "enter")>>
    /\ status' = "running"
    /\ UNCHANGED <<validator, options, heap, heapNs, call, result>>

(***************************************************************************)
(* profileValidator.js: filenames, files and profiles                      *)
(***************************************************************************)
\* A filename is the sequence of its characters; '' is the empty sequence.
Upper == {"J", "S", "O", "N", "Y", "A", "M", "L", "C"}

Lower == [c \in Upper |->
             CASE c = "J" -> "j" [] c = "S" -> "s" [] c = "O" -> "o"
               [] c = "N" -> "n" [] c = "Y" -> "y" [] c = "A" -> "a"
               [] c = "M" -> "m" [] c = "L" -> "l" [] c = "C" -> "c"]

\* String.prototype.toLowerCase
toLowerCase(s) == [n \in 1..Len(s) |-> IF s[n] \in Upper THEN Lower[s[n]] ELSE s[n]]

\* String.prototype.endsWith
endsWith(s, suffix) ==
    /\ Len(s) >= Len(suffix)
    /\ SubSeq(s, Len(s) - Len(suffix) + 1, Len(s)) = suffix

\* path.resolve(filename): the filename under the working directory.
resolve(filename) == IF filename # <<>> /\ filename[1] = "/" THEN filename ELSE <<"/">> \o filename

JSONFILE == <<"c", ".", "j", "s", "o", "n">>

YAMLFILE == <<"c", ".", "y", "a", "m", "l">>

Filenames ==
    {<<>>, <<"t", "e", "s", "t">>, JSONFILE, YAMLFILE,
     <<"C", ".", "J", "S", "O", "N">>, <<"c", ".", "Y", "a", "m", "l">>,
     <<"j", "s", "o", "n">>, <<"c", ".", "y", "m", "l">>,
     <<"c", ".", "j", "s", "o", "n", "x">>}

Sections == {"client", "channels", "certificateAuthorities", "orderers", "organizations", "peers"}

Orderer(key, hasUrl, url) == [key |-> key, hasUrl |-> hasUrl, url |-> url]

\* test/data/connection.json, as far as the rules look at it: name and
\* x-type ("" if absent), the sections present, client.organization ("" if
\* absent), the keys of organizations, and the orderers in key order.
GoodProfile ==
    [name |-> "test", xtype |-> "hlfv1", sections |-> Sections,
     organization |-> "Org1", organizations |-> {"Org1"},
     orderers |-> <<Orderer("orderer1", TRUE, "grpc://localhost:7050")>>]

OrdererLists ==
    {<<>>,
     <<Orderer("orderer1", TRUE, "grpc://localhost:7050"), Orderer("orderer2", FALSE, "")>>,
     <<Orderer("orderer1", TRUE, "grpc://localhost:7050"), Orderer("orderer2", TRUE, "bar")>>,
     <<Orderer("orderer1", FALSE, ""), Orderer("orderer2", TRUE, "bar")>>}

\* The profiles of the tests: the good one, and the good one with one thing
\* wrong or missing, or with nothing but a name.
Profiles ==
    {GoodProfile}
    \cup {[GoodProfile EXCEPT !.name = n] : n \in {"", "%test%"}}
    \cup {[GoodProfile EXCEPT !.xtype = x] : x \in {"", "hlfv11", "hlfv99"}}
    \cup {[GoodProfile EXCEPT !.sections = Sections \ {s}] : s \in Sections}
    \cup {[GoodProfile EXCEPT !.sections = {}]}
    \cup {[GoodProfile EXCEPT !.organization = ""]}
    \cup {[GoodProfile EXCEPT !.organizations = {"NoOrg1Here"}]}
    \cup {[GoodProfile EXCEPT !.orderers = o] : o \in OrdererLists}

\* The profiles kept under a filename: the ones other than the good one are
\* JSON files.
Stored(filename) == IF filename = JSONFILE THEN Profiles ELSE {GoodProfile}

\* What the disk may hold under a filename: nothing, text that does not
\* parse, or a profile.
Disk(filename) ==
    {[kind |-> "ENOENT", profile |-> NoProfile],
     [kind |-> "unparseable", profile |-> NoProfile]}
    \cup {[kind |-> "profile", profile |-> p] : p \in Stored(filename)}

(***************************************************************************)
(* profileValidator.js: the rules                                          *)
(***************************************************************************)
Error(text, arg) == [text |-> text, arg |-> arg, suspect |-> ""]

Line(text) == [text |-> text, arg |-> "", suspect |-> ""]

\* What running a rule, or several, comes to: the errorList it leaves, the
\* lines it printed, the rules run, and the exception that ended it, if any.
Ran(errors, printed, applied, thrown) ==
    [errors |-> errors, printed |-> printed, applied |-> applied, thrown |-> thrown]

\* /^[a-z0-9]+$/i
regexpTest(name) == name \in {"test"}

profileHasValidNameProperty(profile, list) ==
    IF profile.name = ""
    THEN Append(list, Error("profile does not have a name property", ""))
    ELSE IF ~regexpTest(profile.name)
         THEN Append(list, Error("profile name property value is not valid for Composer: ",
                                 profile.name))
         ELSE list

validXTypeValues == {"hlfv1", "hlfv11"}

profileHasValidXTypeProperty(profile, list) ==
    IF profile.xtype = ""
    THEN Append(list, Error("profile does not have an x-type property", ""))
    ELSE IF profile.xtype \notin validXTypeValues
         THEN Append(list, Error("profile x-type property value is not valid for Composer: ",
                                 profile.xtype))
         ELSE list

\* The sections baseSectionsExist looks for, in the order it does, and what
\* it says of each.
BaseSections ==
    <<"client", "channels", "certificateAuthorities", "orderers", "organizations", "peers">>

Missing(section) ==
    IF section = "client"
    THEN Error("Profile does not specify a client", "")
    ELSE Error("Profile does not specify any ", section)

RECURSIVE baseSectionsFrom(_, _, _)
baseSectionsFrom(n, profile, list) ==
    IF n > Len(BaseSections)
    THEN list
    ELSE baseSectionsFrom(n + 1, profile,
             IF BaseSections[n] \in profile.sections
             THEN list
             ELSE Append(list, Missing(BaseSections[n])))

\* A baseSectionsExist whose checks are chained with else: it reports the
\* first missing section only.
baseSectionsExist_FirstOnly(profile, list) ==
    LET missing == {n \in 1..Len(BaseSections) : BaseSections[n] \notin profile.sections} IN
    IF missing = {}
    THEN list
    ELSE Append(list, Missing(BaseSections[CHOOSE n \in missing : \A m \in missing : n <= m]))

baseSectionsExist(profile, list) == baseSectionsFrom(1, profile, list)

\* clientValidation reads profile.client.organization and
\* profile.organizations[org]: a TypeError if the section is undefined.
clientValidation(profile, list) ==
    IF "client" \notin profile.sections
    THEN Ran(list, <<>>, <<>>, "TypeError")
    ELSE IF profile.organization = ""
         THEN Ran(Append(list, Error("Profile does not specify an owning organization for the client", "")),
                  <<>>, <<>>, "")
         ELSE IF "organizations" \notin profile.sections
              THEN Ran(list, <<>>, <<>>, "TypeError")
              ELSE IF profile.organization \notin profile.organizations
                   THEN Ran(Append(list, Error("Profile client specfies an organization that is not included in the list of organizations: ",
                                               profile.organization)),
                            <<>>, <<>>, "")
                   ELSE Ran(list, <<>>, <<>>, "")

\* validUrl.isUri
isUri(suspect) == suspect \in {"grpc://localhost:7050"}

\* The orderers from the n-th on, in key order.
RECURSIVE orderersFrom(_, _, _)
orderersFrom(n, orderers, ran) ==
    IF n > Len(orderers)
    THEN ran
    ELSE LET orderer == orderers[n] IN
         orderersFrom(n + 1, orderers,
             IF ~orderer.hasUrl
             THEN [ran EXCEPT !.errors =
                      Append(@, Error("Orderer does not have a url property: ", orderer.key))]
             ELSE IF ~isUri(orderer.url)
                  THEN [ran EXCEPT
                           !.printed = Append(@, Line("NOT URI")),
                           !.errors = Append(@, [text |-> "Orderer does not have a valid url property: ",
                                                 arg |-> orderer.key, suspect |-> orderer.url])]
                  ELSE ran)

\* An orderersValidation that looks for the url property and never at its
\* value.
orderersValidation_UrlUnchecked(profile, list) ==
    IF "orderers" \notin profile.sections
    THEN Ran(list, <<>>, <<>>, "TypeError")
    ELSE IF Len(profile.orderers) = 0
         THEN Ran(Append(list, Error("Profile does not specify any ", "orderers")), <<>>, <<>>, "")
         ELSE LET bad == SelectSeq(profile.orderers, LAMBDA orderer : ~orderer.hasUrl) IN
              Ran(list \o [n \in 1..Len(bad) |->
                              Error("Orderer does not have a url property: ", bad[n].key)],
                  <<>>, <<>>, "")

\* orderersValidation takes Object.keys(profile.orderers): a TypeError if
\* the section is undefined.
orderersValidation(profile, list) ==
    IF "orderers" \notin profile.sections
    THEN Ran(list, <<>>, <<>>, "TypeError")
    ELSE IF Len(profile.orderers) = 0
         THEN Ran(Append(list, Error("Profile does not specify any ", "orderers")), <<>>, <<>>, "")
         ELSE orderersFrom(1, profile.orderers, Ran(list, <<>>, <<>>, ""))

\* The rules Map, in insertion order.
rules ==
    <<"profileHasValidNameProperty", "profileHasValidXTypeProperty", "baseSectionsExist",
      "clientValidation", "orderersValidation">>

\* applyRule(rule, profile) with errorList being list.
applyRule(rule, profile, list) ==
    LET ran == CASE rule = "profileHasValidNameProperty" ->
                      Ran(profileHasValidNameProperty(profile, list), <<>>, <<>>, "")
                 [] rule = "profileHasValidXTypeProperty" ->
                      Ran(profileHasValidXTypeProperty(profile, list), <<>>, <<>>, "")
                 [] rule = "baseSectionsExist" ->
                      Ran(baseSectionsExist(profile, list), <<>>, <<>>, "")
                 [] rule = "clientValidation" -> clientValidation(profile, list)
                 [] rule = "orderersValidation" -> orderersValidation(profile, list) IN
    [ran EXCEPT !.applied = <<rule>>]

\* rules.forEach from the n-th rule on: an exception ends the loop.
RECURSIVE applyRulesFrom(_, _, _)
applyRulesFrom(n, profile, ran) ==
    IF n > Len(rules) \/ ran.thrown # ""
    THEN ran
    ELSE LET r == applyRule(rules[n], profile, ran.errors) IN
         applyRulesFrom(n + 1, profile,
             Ran(r.errors, ran.printed \o r.printed, ran.applied \o r.applied, r.thrown))

applyRules(profile, list) == applyRulesFrom(1, profile, Ran(list, <<>>, <<>>, ""))

(***************************************************************************)
(* profileValidator.js: validateProfile                                    *)
(***************************************************************************)
\* A validateInput that compares the name as it was given.
validateInput_CaseSensitive(filename) ==
    IF filename = <<>>
    THEN "Error: no file name specified"
    ELSE IF ~endsWith(filename, <<"j", "s", "o", "n">>)
            /\ ~endsWith(filename, <<"y", "a", "m", "l">>)
         THEN "Usage ERROR: please supply a JSON or YAML connection profile"
         ELSE ""

\* validateInput(filename): the error it throws, "" if it returns the path.
validateInput(filename) ==
    IF filename = <<>>
    THEN "Error: no file name specified"
    ELSE IF ~endsWith(toLowerCase(filename), <<"j", "s", "o", "n">>)
            /\ ~endsWith(toLowerCase(filename), <<"y", "a", "m", "l">>)
         THEN "Usage ERROR: please supply a JSON or YAML connection profile"
         ELSE ""

\* loadProfile(inputPath) with `file` on the disk: the error it throws, ""
\* if it returns the profile.
loadProfile(inputPath, file) ==
    IF file.kind = "ENOENT"
    THEN "ENOENT"
    ELSE IF file.kind = "unparseable"
         THEN IF endsWith(toLowerCase(resolve(inputPath)), <<"j", "s", "o", "n">>)
              THEN "SyntaxError"
              ELSE "YAMLException"
         ELSE ""

\* What the end of validateProfile prints for the errorList it finds.
report(list) ==
    <<Line("[errorList]")>>
    \o (IF Len(list) # 0 THEN list ELSE <<Line("SUCCESS: the profile is valid")>>)

\* validateProfile(filename) with `file` on the disk and errorList being
\* list: the invocation as it ends, and the errorList it leaves.
validateProfile(filename, file, list) ==
    LET call0 == [NoInvocation EXCEPT !.fn = "validateProfile", !.filename = filename]
        input == validateInput(filename)
        load == loadProfile(resolve(filename), file)
        ran == applyRules(file.profile, list)
        start == <<Line("Validating profile file: ")>> IN
    IF input # ""
    THEN [invocation |-> [call0 EXCEPT !.thrown = input], errorList |-> list]
    ELSE IF load # ""
         THEN [invocation |-> [call0 EXCEPT !.thrown = load, !.fileRead = TRUE],
               errorList |-> list]
         ELSE IF ran.thrown # ""
              THEN [invocation |-> [call0 EXCEPT !.thrown = ran.thrown, !.fileRead = TRUE,
                                                 !.profile = file.profile, !.loaded = TRUE,
                                                 !.applied = ran.applied,
                                                 !.printed = start \o ran.printed],
                    errorList |-> ran.errors]
              ELSE [invocation |-> [call0 EXCEPT !.thrown = "returned", !.fileRead = TRUE,
                                                 !.profile = file.profile, !.loaded = TRUE,
                                                 !.applied = ran.applied,
                                                 !.printed = start \o ran.printed \o report(ran.errors)],
                    errorList |-> <<>>]

\* A test, or the command line, calls validateProfile(filename).
ValidateProfile ==
    /\ program = "profileValidator"
    /\ Len(errorList) <= MaxErrors
    /\ \E filename \in Filenames :
         \E file \in Disk(filename) :
            /\ invocation' = validateProfile(filename, file, errorList).invocation
            /\ errorList' = validateProfile(filename, file, errorList).errorList
    /\ UNCHANGED <<program, generator>>

\* A test calls applyRule(rule, profile); afterEach has emptied errorList
\* before the test, and no call so far has put an error in it.
ApplyRule ==
    /\ program = "profileValidator"
    /\ errorList = <<>>
    /\ \E n \in 1..Len(rules), profile \in Profiles :
         LET ran == applyRule(rules[n], profile, errorList) IN
         /\ errorList' = ran.errors
         /\ invocation' = [NoInvocation EXCEPT
                               !.fn = "applyRule", !.rule = rules[n], !.profile = profile,
                               !.thrown = IF ran.thrown = "" THEN "returned" ELSE ran.thrown,
                               !.applied = ran.applied, !.printed = ran.printed]
    /\ UNCHANGED <<program, generator>>

\* A test calls applyRule(rule, profile) once more before afterEach, with
\* the errors of its earlier calls in errorList.
ApplyRuleNext ==
    /\ program = "profileValidator"
    /\ errorList # <<>>
    /\ Len(errorList) <= MaxErrors
    /\ \E n \in 1..Len(rules), profile \in Profiles :
         LET ran == applyRule(rules[n], profile, errorList) IN
         /\ errorList' = ran.errors
         /\ invocation' = [NoInvocation EXCEPT
                               !.fn = "applyRule", !.rule = rules[n], !.profile = profile,
                               !.thrown = IF ran.thrown = "" THEN "returned" ELSE ran.thrown,
                               !.applied = ran.applied, !.printed = ran.printed]
    /\ UNCHANGED <<program, generator>>

\* The steps of a JSONGenerator and of its caller.
NextGenerator ==
    \/ Visit
    \/ VisitUnrecognised
    \/ GetRelationshipText
    \/ RelationshipEnter
    \/ RelationshipValue
    \/ RelationshipAccepted
    \/ RelationshipReturn
    \/ ClassOpen
    \/ VisitField
    \/ ClassRelationship
    \/ ClassClose

Next ==
    \/ NextGenerator
    \/ ValidateProfile
    \/ ApplyRule

Spec == Init /\ [][Next]_vars

InitGenerator == Init /\ program = "JSONGenerator"

\* A generator that serves a second call after the first.
NextAgain ==
    \/ Next
    \/ VisitAgain

AgainSpec == Init /\ [][NextAgain]_vars

\* The traversal is one synchronous call: it keeps running until it returns
\* or throws.
FairSpec == InitGenerator /\ [][NextGenerator]_vars /\ WF_vars(NextGenerator)

InitValidator == Init /\ program = "profileValidator"

\* The rules as the tests of the rules call them: applyRule, once or
\* several times in a test, on the errorList the earlier calls left.
NextRules ==
    \/ ApplyRule
    \/ ApplyRuleNext

RulesSpec == InitValidator /\ [][NextRules]_vars

(***************************************************************************)
(* Properties                                                              *)
(***************************************************************************)
Finished == status \in {"returned", "RelationshipTypeError", "UnrecognisedValueError"}

Failed == status \in {"RelationshipTypeError", "UnrecognisedValueError"}

\* The positions of `frames` that are visits of a class declaration, that is
\* the objects open at the moment, outermost first.
OpenFrames == {a \in 1..Len(frames) : frames[a].fn = "visitClassDeclaration"}

\* The nesting depth of inlined objects.
Depth == Cardinality(OpenFrames)

\* The resource the innermost visitRelationshipDeclaration is about to handle,
\* when it is one the generator may inline.
AtResource ==
    /\ Running("visitRelationshipDeclaration", "value")
    /\ Top.idx <= Len(Top.obj)
    /\ inlines(permitResourcesForRelationships, Top.obj[Top.idx])

Current == Top.obj[Top.idx]

IsOpen(v) == \E a \in OpenFrames : frames[a].obj[1] = v

StringChunk(t) == Chunk("string", "", t)

\* C1 as stated: within one call every identifier is inlined (an object is
\* opened for it) at most once.
C1_InlinedAtMostOnce == \A i \in Res : opened[i] <= 1

NoObjectInsideItself ==
    \A a, b \in OpenFrames : a # b => frames[a].obj[1].id # frames[b].obj[1].id

ReferenceWhileOpen ==
    (AtResource /\ IsOpen(Current)) =>
        /\ writer'.buf = Append(writer.buf, StringChunk(relationshipText(Top.decl, Current)))
        /\ opened' = opened
        /\ Len(frames') = Len(frames)

InlinedWhenNotOpen ==
    (AtResource /\ ~IsOpen(Current)) =>
        /\ frames'[Len(frames')].fn = "visitClassDeclaration"
        /\ frames'[Len(frames')].obj = <<Current>>

\* C1 as amended: within one call no resource is inlined inside its own
\* object (the open objects have pairwise distinct identifiers); meeting a
\* resource whose object is open writes exactly its reference string, and
\* meeting one whose object is not open, even if it was inlined and closed
\* before, inlines it.
C1_InlinedAtMostOncePerPath ==
    /\ []NoObjectInsideItself
    /\ [][ReferenceWhileOpen /\ InlinedWhenNotOpen]_vars

\* A resource was written once as an object and then again as an object,
\* and another was met inside its own object.
C1_Witness ==
    /\ status = "returned"
    /\ \E i \in Res : opened[i] >= 2
    /\ \E n \in 1..Len(writer.buf) : writer.buf[n] = StringChunk(Identifier(1))
    /\ call.obj = AllResources(NsAcme)

\* The text of an object up to and including its assetId.
ObjectHead(decl, i) ==
    <<Chunk("{", "", NoText),
      Chunk("keystring", "$class", FullyQualifiedName(decl.ns, decl.type)),
      Chunk(",", "", NoText),
      Chunk("keystring", "assetId", Identifier(i))>>

NextKey == <<Chunk(",", "", NoText), Chunk("key", "next", NoText)>>

\* "next":{A,"next":{B,"next":{C,"next":"A"}}}
CycleText(a, b, c, ref) ==
    <<Chunk("key", "next", NoText)>>
    \o ObjectHead(relationshipDeclaration3, a) \o NextKey
    \o ObjectHead(relationshipDeclaration3, b) \o NextKey
    \o ObjectHead(relationshipDeclaration3, c) \o NextKey
    \o <<StringChunk(ref), Chunk("}", "", NoText), Chunk("}", "", NoText),
         Chunk("}", "", NoText)>>

\* A visit of `next` that started at resource a of the cycle a -> b -> c -> a.
CycleVisited(a, b, c) ==
    /\ Cardinality({a, b, c}) = 3
    /\ heap[a] = <<Resource(heapNs, b)>>
    /\ heap[b] = <<Resource(heapNs, c)>>
    /\ heap[c] = <<Resource(heapNs, a)>>
    /\ call = [fn |-> "visit", thing |-> "RelationshipDeclaration",
               decl |-> relationshipDeclaration3, obj |-> <<Resource(heapNs, a)>>]
    /\ permitResourcesForRelationships
    /\ ~convertResourcesToRelationships

\* C2: visiting `next` at A of the cycle A -> B -> C -> A, inlining permitted
\* and conversion off, ends without error having written A, B and C as one
\* nested object each, in that order, and A's reference string (its bare
\* identifier inside the declaration's namespace) as C's `next`.
C2_CycleBroken ==
    \A a, b, c \in Res :
        (CycleVisited(a, b, c) /\ Finished) =>
            /\ status = "returned"
            /\ writer.buf = CycleText(a, b, c,
                   IF heapNs = NsAcme THEN Identifier(a)
                   ELSE [ns |-> heapNs, type |-> "SimpleAssetCircle", id |-> a])
            /\ opened = [i \in Res |-> IF i \in {a, b, c} THEN 1 ELSE 0]

\* The DOGE_1 -> DOGE_2 -> DOGE_3 -> DOGE_1 call of the test has returned.
C2_Witness ==
    /\ CycleVisited(1, 2, 3)
    /\ heapNs = NsAcme
    /\ status = "returned"

\* The distinct identifiers of the graph the call was given.
GraphIdentifiers == Reachable(call.obj)

DepthBounded == Depth <= Cardinality(GraphIdentifiers)

\* C3: a call that permits inlining finishes (returns or throws), whatever
\* the cycles of the graph, and at no moment are more objects open than the
\* graph has distinct identifiers.
C3_Terminates ==
    /\ []DepthBounded
    /\ (status = "running" /\ permitResourcesForRelationships) ~> Finished

\* A call on a graph where every resource lists itself and its successor
\* has returned.
C3_Witness ==
    /\ status = "returned"
    /\ permitResourcesForRelationships
    /\ call.decl = relationshipDeclaration4
    /\ heap = RotHeap(heapNs, 0, 2)
    /\ call.obj = AllResources(heapNs)

HasResource(obj) == \E n \in 1..Len(obj) : obj[n].kind = "Resource"

Visiting == call.fn = "visit" /\ call.thing = "RelationshipDeclaration"

NothingOpened ==
    /\ opened = [i \in Res |-> 0]
    /\ Depth = 0
    /\ \A n \in 1..Len(writer.buf) : writer.buf[n].c # "{"

ExpectedText(decl, v) ==
    IF v.ns = decl.ns
    THEN [ns |-> "", type |-> "", id |-> v.id]
    ELSE [ns |-> v.ns, type |-> v.type, id |-> v.id]

Resolving == call.fn = "getRelationshipText"

\* C5: getRelationshipText on a Resource returns a string exactly if
\* convertResourcesToRelationships is on, whatever
\* permitResourcesForRelationships is, and the string is the one a
\* Relationship with the Resource's namespace, type and id yields; with the
\* option off the call fails with RelationshipTypeError.
C5_ResourceOnlyIfConverted ==
    (Resolving /\ call.obj[1].kind = "Resource") =>
        /\ Finished
        /\ (status = "returned") = convertResourcesToRelationships
        /\ (status = "RelationshipTypeError") = ~convertResourcesToRelationships
        /\ status = "returned" =>
               /\ result = ExpectedText(call.decl, call.obj[1])
               /\ result = getRelationshipText(call.decl,
                               Relationship(call.obj[1].ns, call.obj[1].type, call.obj[1].id),
                               FALSE, FALSE).text

\* A generator that only permits inlining was asked for the text of a
\* Resource and has thrown.
C5_Witness ==
    /\ Resolving
    /\ call.obj[1].kind = "Resource"
    /\ ~convertResourcesToRelationships
    /\ permitResourcesForRelationships
    /\ status = "RelationshipTypeError"

\* C6: getRelationshipText on a Relationship returns the bare id if the
\* pointer's namespace is the declaration's, the fully qualified identifier
\* otherwise, under every option; it writes nothing and leaves
\* seenResources as it was.
C6_NamespaceQualification ==
    (Resolving /\ call.obj[1].kind = "Relationship") =>
        /\ status = "returned"
        /\ result = (IF call.obj[1].ns = call.decl.ns
                     THEN Identifier(call.obj[1].id)
                     ELSE [ns |-> call.obj[1].ns, type |-> call.obj[1].type,
                           id |-> call.obj[1].id])
        /\ writer = EmptyWriter
        /\ seenResources = {}
        /\ frames = <<>>

\* The text of a pointer into org.elsewhere was asked for.
C6_Witness ==
    /\ Resolving
    /\ call.obj = <<Relationship(NsElsewhere, "MyAsset1", 1)>>
    /\ result = [ns |-> NsElsewhere, type |-> "MyAsset1", id |-> 1]

\* The innermost visitRelationshipDeclaration is about to handle element idx
\* of its array.
AtElement ==
    /\ Running("visitRelationshipDeclaration", "value")
    /\ Top.decl.isArray
    /\ Top.idx <= Len(Top.obj)

\* The chunks a step appends to the buffer.
Written == SubSeq(writer'.buf, Len(writer.buf) + 1, Len(writer'.buf))

\* C7: in every array visited, the first element is written without a
\* separator and every later element right after exactly one separator.
C7_OneSeparatorBetweenElements ==
    [][(AtElement /\ status' = "running") =>
          IF Top.idx = 1
          THEN Written = <<>> \/ Written[1].c # ","
          ELSE Written # <<>> /\ Written[1].c = ","]_vars

\* C8: a visit of a thing that is no declaration ends at once with
\* UnrecognisedValueError, the writer and seenResources untouched.
C8_UnrecognisedFailsAtOnce ==
    /\ (call.fn = "visit" /\ call.thing = "3.142") =>
          status = "UnrecognisedValueError"
    /\ status = "UnrecognisedValueError" =>
          /\ call.thing = "3.142"
          /\ writer = EmptyWriter
          /\ seenResources = {}
          /\ frames = <<>>
          /\ opened = [i \in Res |-> 0]

\* visit(3.142, {}) has thrown.
C8_Witness ==
    /\ call.fn = "visit"
    /\ call.thing = "3.142"
    /\ status = "UnrecognisedValueError"

\* C9: what follows the open marker of every object is its $class, and the
\* $class of the object just opened is the fully qualified type name of the
\* resource being inlined.
C9_DiscriminatorFirst ==
    /\ \A n \in 1..(Len(writer.buf) - 1) :
          writer.buf[n].c = "{" =>
              writer.buf[n + 1].c = "keystring" /\ writer.buf[n + 1].k = "$class"
    /\ (Running("visitClassDeclaration", "properties") /\ Top.idx = 1) =>
          writer.buf[Len(writer.buf)] =
              Chunk("keystring", "$class",
                    FullyQualifiedName(Top.obj[1].ns, Top.obj[1].type))

\* A visit that cannot render a Resource of its top-level value.
Unrenderable ==
    /\ Visiting
    /\ ~permitResourcesForRelationships
    /\ ~convertResourcesToRelationships
    /\ HasResource(call.obj)

\* C10: a call in which an error was raised ends with that error: it never
\* returns, the step that raises it writes nothing and unwinds every frame,
\* no text is returned, and no step follows it.
C10_ErrorsAbort ==
    /\ [](Unrenderable => status # "returned")
    /\ [][/\ Failed => UNCHANGED vars
          /\ Failed' => /\ writer' = writer
                        /\ seenResources' = seenResources
                        /\ frames' = <<>>
                        /\ result' = NoText]_vars

\* The error was raised at the second element, after the first was written.
C10_Witness ==
    /\ status = "RelationshipTypeError"
    /\ Len(call.obj) = 2
    /\ call.obj[2].kind = "Resource"
    /\ Len(writer.buf) >= 3
    /\ writer.buf[3] = StringChunk(Identifier(call.obj[1].id))

\* The visit was made a second time and that call has returned too.
ReturnedAgain == previous.made /\ status = "returned"

KeysInDeclaredOrder ==
    /\ \A n \in 1..Len(writer.buf) :
          (writer.buf[n].c = "{" /\ n + 3 <= Len(writer.buf)) =>
              /\ writer.buf[n + 1].k = "$class"
              /\ writer.buf[n + 2].c = ","
              /\ writer.buf[n + 3].c = "keystring"
              /\ writer.buf[n + 3].k = "assetId"
    /\ \A n \in 3..Len(writer.buf) :
          writer.buf[n].c = "key" =>
              /\ writer.buf[n - 1].c = ","
              /\ writer.buf[n - 2].c = "keystring"
              /\ writer.buf[n - 2].k = "assetId"

\* C12: inside every inlined object the properties are written in the order
\* the model file declares them, "assetId" before "next"; a graph whose
\* resources had their fields assigned in the other order serializes to the
\* text it had with the fields assigned in declaration order.
C12_SchemaOrder ==
    /\ KeysInDeclaredOrder
    /\ (ReturnedAgain /\ populated # DeclaredOrder) => writer.buf = previous.buf

\* The cycle of the circular-resource test was serialized again with `next`
\* assigned before `assetId`.
C12_Witness ==
    /\ ReturnedAgain
    /\ CycleVisited(1, 2, 3)
    /\ populated = <<"next", "assetId">>
    /\ Len(writer.buf) > Len(CycleText(1, 2, 3, NoText)) - 1

\* The latest call into profileValidator.js was validateProfile.
Validated == program = "profileValidator" /\ invocation.fn = "validateProfile"

NoFileName == "Error: no file name specified"

UsageError == "Usage ERROR: please supply a JSON or YAML connection profile"

\* The filename, lower-cased, ends in "json" or in "yaml".
NamesProfile(filename) ==
    \/ endsWith(toLowerCase(filename), <<"j", "s", "o", "n">>)
    \/ endsWith(toLowerCase(filename), <<"y", "a", "m", "l">>)

\* C13: validateProfile fails with 'Error: no file name specified' exactly
\* for an empty filename, and with the usage error exactly for a filename
\* that is not empty and whose lower-cased form ends in neither "json" nor
\* "yaml"; a call that fails so has read no file, applied no rule and
\* printed nothing, and leaves errorList as it found it.
C13_InputCheckedFirst ==
    /\ [](Validated =>
            /\ (invocation.thrown = NoFileName) = (invocation.filename = <<>>)
            /\ (invocation.thrown = UsageError) =
                   (invocation.filename # <<>> /\ ~NamesProfile(invocation.filename))
            /\ invocation.thrown \in {NoFileName, UsageError} =>
                   /\ ~invocation.fileRead
                   /\ ~invocation.loaded
                   /\ invocation.applied = <<>>
                   /\ invocation.printed = <<>>)
    /\ [][(invocation'.fn = "validateProfile"
              /\ invocation'.thrown \in {NoFileName, UsageError})
            => errorList' = errorList]_vars

\* validateProfile('c.jsonx') has thrown the usage error with an error of an
\* earlier call in errorList.
C13_Witness ==
    /\ Validated
    /\ invocation.filename = <<"c", ".", "j", "s", "o", "n", "x">>
    /\ invocation.thrown = UsageError
    /\ errorList # <<>>

\* The errors the rules record for a profile, up to the rule that throws.
Violations(profile) == applyRules(profile, <<>>).errors

Printed(line) == \E n \in 1..Len(invocation.printed) : invocation.printed[n] = line

Success == Line("SUCCESS: the profile is valid")

\* C14: a validateProfile whose profile has loaded prints the success
\* message exactly if the rules record no error for that profile, and
\* otherwise prints every error they record; a validateProfile that has
\* returned leaves errorList empty.
C14_SuccessIffNoError ==
    /\ (Validated /\ invocation.loaded) =>
          /\ Printed(Success) = (Violations(invocation.profile) = <<>>)
          /\ \A n \in 1..Len(Violations(invocation.profile)) :
                 Printed(Violations(invocation.profile)[n])
    /\ (Validated /\ invocation.thrown = "returned") => errorList = <<>>

\* The identifiers of the resources whose inlining has started and has not
\* returned to visitRelationshipDeclaration yet.
BeingInlined ==
    {FullyQualifiedIdentifier(frames[a].obj[frames[a].idx]) :
        a \in {b \in 1..Len(frames) : /\ frames[b].fn = "visitRelationshipDeclaration"
                                       /\ frames[b].pc = "accepted"}}

Inlined(i) == opened[i] > 0

\* C15 as stated: while a call runs no step takes an identifier out of
\* seenResources, and seenResources holds every identifier whose inlining
\* has started in the call.
C15_SeenOnlyGrows ==
    /\ [][status = "running" => seenResources \subseteq seenResources']_vars
    /\ [](status = "running" =>
            \A i \in Res : Inlined(i) =>
                FullyQualifiedIdentifier(Resource(heapNs, i)) \in seenResources)

\* C15 as amended: seenResources is empty when a call starts and when it
\* returns, and in between holds exactly the identifiers of the resources
\* being inlined; it grows by one identifier when the inlining of a
\* resource starts and loses that identifier when the inlining returns.
C15_SeenIsTraversalPath ==
    /\ [](seenResources = BeingInlined)
    /\ [](status \in {"idle", "returned"} => seenResources = {})
    /\ [][Running("visitRelationshipDeclaration", "accepted") =>
             /\ FullyQualifiedIdentifier(Current) \in seenResources
             /\ seenResources' = seenResources \ {FullyQualifiedIdentifier(Current)}]_vars
    /\ [][(seenResources' \ seenResources) # {} =>
             /\ AtResource
             /\ FullyQualifiedIdentifier(Current) \notin seenResources
             /\ seenResources' = seenResources \cup {FullyQualifiedIdentifier(Current)}]_vars

\* A resource was inlined and is no longer in seenResources, while another
\* still is.
C15_Witness ==
    /\ status = "running"
    /\ seenResources # {}
    /\ \E i \in Res :
          /\ Inlined(i)
          /\ FullyQualifiedIdentifier(Resource(heapNs, i)) \notin seenResources

\* The text of an array of resources of SimpleAssetCircleArray, by the
\* path: a resource on the path is its reference, any other the object it
\* had if it were met for the first time, after a separator unless it is the
\* first element.
RECURSIVE ElementsByPath(_, _, _)
ElementsByPath(list, path, n) ==
    IF n > Len(list)
    THEN <<>>
    ELSE (IF list[n].id \in path
          THEN <<StringChunk(relationshipText(relationshipDeclaration4, list[n]))>>
          ELSE (IF n > 1 THEN <<Chunk(",", "", NoText)>> ELSE <<>>)
               \o ObjectHead(relationshipDeclaration4, list[n].id) \o NextKey
               \o <<Chunk("[", "", NoText)>>
               \o ElementsByPath(heap[list[n].id], path \cup {list[n].id}, 1)
               \o <<Chunk("]", "", NoText), Chunk("}", "", NoText)>>)
         \o ElementsByPath(list, path, n + 1)

\* visitRelationshipDeclaration(relationshipDeclaration4) on the array of all
\* resources, inlining permitted.
CircularArrayVisited ==
    /\ Visiting
    /\ call.decl = relationshipDeclaration4
    /\ call.obj = AllResources(heapNs)
    /\ permitResourcesForRelationships

\* C16: the visit of the array of all resources, each listing resources
\* that follow it cyclically, returns with the text in which a resource is
\* a bare reference exactly where it is on the path of objects being
\* inlined and a full object everywhere else; where each resource lists
\* others, every resource is inlined more than once.
C16_ReferenceOnlyOnPath ==
    (CircularArrayVisited /\ Finished) =>
        /\ status = "returned"
        /\ writer.buf = <<Chunk("key", "next", NoText), Chunk("[", "", NoText)>>
                         \o ElementsByPath(call.obj, {}, 1)
                         \o <<Chunk("]", "", NoText)>>
        /\ (\E fan \in 1..(NumRes - 1) : heap = RotHeap(heapNs, 1, fan)) =>
               \A i \in Res : opened[i] >= 2

\* The call of the circular-array test has returned.
C16_Witness ==
    /\ CircularArrayVisited
    /\ ~convertResourcesToRelationships
    /\ heapNs = NsAcme
    /\ heap = RotHeap(NsAcme, 1, 2)
    /\ status = "returned"
    /\ opened[2] >= 2

Separator == Chunk(",", "", NoText)

\* C17: an array element written as a back-reference (a resource whose
\* object is open) is written as the string alone, with no separator before
\* it wherever it stands in the array; an element that is inlined is
\* preceded by a separator unless it is the first of its array, and so is
\* an element written as the text of a pointer.
C17_NoSeparatorBeforeBackReference ==
    [][(AtElement /\ status' = "running") =>
          IF inlines(permitResourcesForRelationships, Current)
          THEN IF IsOpen(Current)
               THEN Written = <<StringChunk(relationshipText(Top.decl, Current))>>
               ELSE Written = (IF Top.idx = 1 THEN <<>> ELSE <<Separator>>)
          ELSE Written = (IF Top.idx = 1 THEN <<>> ELSE <<Separator>>)
                         \o <<StringChunk(relationshipText(Top.decl, Current))>>]_vars

\* A text that is no JSON was returned: two strings of an array with nothing
\* between them, and a string right after the closing brace of an object.
C17_Witness ==
    /\ status = "returned"
    /\ \E n \in 1..(Len(writer.buf) - 1) :
          writer.buf[n].c = "string" /\ writer.buf[n + 1].c = "string"
    /\ \E n \in 1..(Len(writer.buf) - 1) :
          writer.buf[n].c = "}" /\ writer.buf[n + 1].c = "string"

\* A visit of `next` that started at a resource whose `next` is itself.
SelfVisited(a) ==
    /\ Visiting
    /\ call.decl = relationshipDeclaration3
    /\ call.obj = <<Resource(heapNs, a)>>
    /\ heap[a] = <<Resource(heapNs, a)>>
    /\ permitResourcesForRelationships

\* C18: the identifier of every resource whose object is open, or about to
\* be opened, is in seenResources; a visit of a resource whose `next` is
\* the resource itself returns having written one object for it, the value
\* of that object's `next` being the resource's reference string.
C18_SeenBeforeDescending ==
    /\ \A a \in OpenFrames : FullyQualifiedIdentifier(frames[a].obj[1]) \in seenResources
    /\ \A a \in Res :
          (SelfVisited(a) /\ Finished) =>
              /\ status = "returned"
              /\ opened = [i \in Res |-> IF i = a THEN 1 ELSE 0]
              /\ writer.buf =
                     <<Chunk("key", "next", NoText)>>
                     \o ObjectHead(relationshipDeclaration3, a) \o NextKey
                     \o <<StringChunk(relationshipText(relationshipDeclaration3,
                                                       Resource(heapNs, a))),
                          Chunk("}", "", NoText)>>

\* The visit of DOGE_2, whose `next` is DOGE_2, has returned.
C18_Witness ==
    /\ SelfVisited(2)
    /\ status = "returned"

\* A visit of a singular relationship whose value is a pointer.
SingularPointer ==
    /\ Visiting
    /\ ~call.decl.isArray
    /\ call.obj[1].kind = "Relationship"

\* C19: a visit of a singular relationship whose value is a Relationship,
\* under all four settings of the options, never fails, opens no object and
\* no array, leaves seenResources empty, and returns having written the key
\* and then one string, the pointer's reference text.
C19_PointerWrittenAsText ==
    SingularPointer =>
        /\ ~Failed
        /\ seenResources = {}
        /\ NothingOpened
        /\ \A n \in 1..Len(writer.buf) : writer.buf[n].c \notin {"[", "]", "{", "}", ","}
        /\ status = "returned" =>
               writer.buf = <<Chunk("key", call.decl.name, NoText),
                              StringChunk(ExpectedText(call.decl, call.obj[1]))>>

\* A pointer into org.elsewhere was written by a generator with both
\* options on.
C19_Witness ==
    /\ SingularPointer
    /\ status = "returned"
    /\ convertResourcesToRelationships
    /\ permitResourcesForRelationships
    /\ call.obj[1].ns = NsElsewhere

\* The open markers after the chunks of buf, from the n-th on, are written
\* with `markers` open, outermost first; <<"mismatch">> if a marker closes
\* what is not the innermost open one.
RECURSIVE Unclosed(_, _, _)
Unclosed(buf, n, markers) ==
    IF n > Len(buf)
    THEN markers
    ELSE IF buf[n].c \in {"{", "["}
         THEN Unclosed(buf, n + 1, Append(markers, buf[n].c))
         ELSE IF buf[n].c \in {"}", "]"}
              THEN IF markers # <<>>
                      /\ markers[Len(markers)] = (IF buf[n].c = "}" THEN "{" ELSE "[")
                   THEN Unclosed(buf, n + 1, SubSeq(markers, 1, Len(markers) - 1))
                   ELSE <<"mismatch">>
              ELSE Unclosed(buf, n + 1, markers)

\* The marker each active method has written and not closed yet.
RECURSIVE FrameMarkers(_)
FrameMarkers(fs) ==
    IF fs = <<>>
    THEN <<>>
    ELSE LET f == fs[Len(fs)]
             rest == FrameMarkers(SubSeq(fs, 1, Len(fs) - 1)) IN
         IF f.fn = "visitClassDeclaration" /\ f.pc # "open"
         THEN Append(rest, "{")
         ELSE IF f.fn = "visitRelationshipDeclaration" /\ f.decl.isArray /\ f.pc # "enter"
              THEN Append(rest, "[")
              ELSE rest

Count(c) == Cardinality({n \in 1..Len(writer.buf) : writer.buf[n].c = c})

RECURSIVE Sum(_, _)
Sum(f, S) == IF S = {} THEN 0 ELSE LET x == CHOOSE y \in S : TRUE IN f[x] + Sum(f, S \ {x})

\* An array of distinct resources that have no relationships of their own.
DistinctResources ==
    /\ call.decl = relationshipDeclaration2
    /\ \A n \in 1..Len(call.obj) : call.obj[n].kind = "Resource"
    /\ \A m, n \in 1..Len(call.obj) : m # n => call.obj[m] # call.obj[n]

\* C20: in a visit that permits inlining every step changes the markers
\* of the active methods, one brace per object being inlined and one
\* bracket per array being visited, nested as the methods are, by exactly
\* the markers it writes: an opening marker goes on top, a closing marker
\* closes the innermost open one; when the visit has returned every marker
\* is closed, there are as many opening as closing braces, one pair per
\* inlined object, and an array of n distinct resources without
\* relationships has given n pairs of braces inside one pair of brackets.
C20_MarkersBalanced ==
    /\ [][(Visiting /\ permitResourcesForRelationships /\ status = "running") =>
             Unclosed(Written, 1, FrameMarkers(frames)) = FrameMarkers(frames')]_vars
    /\ []((Visiting /\ permitResourcesForRelationships /\ status = "returned") =>
             /\ FrameMarkers(frames) = <<>>
             /\ Count("{") = Sum(opened, Res)
             /\ Count("}") = Count("{")
             /\ Count("]") = Count("[")
             /\ DistinctResources =>
                    /\ Count("{") = Len(call.obj)
                    /\ Count("[") = 1
                    /\ writer.buf[2].c = "["
                    /\ writer.buf[Len(writer.buf)].c = "]")

\* The array of all resources was written as so many objects in one array.
C20_Witness ==
    /\ Visiting
    /\ permitResourcesForRelationships
    /\ status = "returned"
    /\ DistinctResources
    /\ call.obj = AllResources(heapNs)
    /\ Count("}") = NumRes

\* What validateProfile(filename) prints for a profile when errorList is
\* empty as the call starts.
PrintedAlone(filename, profile) ==
    validateProfile(filename, [kind |-> "profile", profile |-> profile], <<>>).invocation.printed

\* C21: whatever calls came before it, a validateProfile whose profile has
\* loaded prints what it prints when errorList is empty as it starts: the
\* errors of its own profile and no error an earlier call recorded, and
\* the success message for a profile that violates no rule.
C21_CallsIsolated ==
    (Validated /\ invocation.loaded) =>
        /\ invocation.printed = PrintedAlone(invocation.filename, invocation.profile)
        /\ Violations(invocation.profile) = <<>> => Printed(Success)

\* A call into profileValidator.js has handed a parsed profile to the rules.
RulesApplied ==
    /\ program = "profileValidator"
    /\ \/ invocation.fn = "applyRule"
       \/ invocation.fn = "validateProfile" /\ invocation.loaded

\* C22: no rule ends in an exception, whatever the profile lacks; a
\* validateProfile whose profile has loaded runs the five rules in the order
\* name, x-type, base sections, client, orderers, returns, and has printed
\* an error for every section the profile lacks.
C22_RulesNeverThrow ==
    /\ RulesApplied => invocation.thrown = "returned"
    /\ (Validated /\ invocation.loaded) =>
          /\ invocation.applied =
                 <<"profileHasValidNameProperty", "profileHasValidXTypeProperty",
                   "baseSectionsExist", "clientValidation", "orderersValidation">>
          /\ \A section \in Sections \ invocation.profile.sections :
                 Printed(Missing(section))

\* The latest step was the call applyRule(rule, profile), in the primed state.
Applied(rule) ==
    /\ program = "profileValidator"
    /\ invocation'.fn = "applyRule"
    /\ invocation'.rule = rule

\* The errors expected for the absent base sections, in the order client,
\* channels, certificateAuthorities, orderers, organizations, peers.
SectionErrors ==
    <<[section |-> "client", error |-> Error("Profile does not specify a client", "")],
      [section |-> "channels", error |-> Error("Profile does not specify any ", "channels")],
      [section |-> "certificateAuthorities",
       error |-> Error("Profile does not specify any ", "certificateAuthorities")],
      [section |-> "orderers", error |-> Error("Profile does not specify any ", "orderers")],
      [section |-> "organizations", error |-> Error("Profile does not specify any ", "organizations")],
      [section |-> "peers", error |-> Error("Profile does not specify any ", "peers")]>>

AbsentSections(profile) ==
    LET absent == SelectSeq(SectionErrors, LAMBDA e : e.section \notin profile.sections) IN
    [n \in 1..Len(absent) |-> absent[n].error]

\* C23: applyRule(baseSectionsExist, profile) returns and leaves errorList
\* as it was with one error appended for each absent section among client,
\* channels, certificateAuthorities, orderers, organizations and peers, in
\* that order: nothing appended when all six are present, and no earlier
\* entry changed.
C23_OneErrorPerAbsentSection ==
    [][Applied("baseSectionsExist") =>
          /\ invocation'.thrown = "returned"
          /\ errorList' = errorList \o AbsentSections(invocation'.profile)]_vars

\* baseSectionsExist has run on a profile with none of the six sections
\* while errorList held the error of an earlier applyRule.
C23_Witness ==
    /\ program = "profileValidator"
    /\ invocation.fn = "applyRule"
    /\ invocation.rule = "baseSectionsExist"
    /\ invocation.profile.sections = {}
    /\ Len(errorList) = 7
    /\ errorList[1] = Error("profile does not have a name property", "")
    /\ errorList[7] = Error("Profile does not specify any ", "peers")

\* The error expected for an orderer without a url property or with a url
\* that is no URI.
OrdererError(orderer) ==
    IF ~orderer.hasUrl
    THEN [text |-> "Orderer does not have a url property: ", arg |-> orderer.key, suspect |-> ""]
    ELSE [text |-> "Orderer does not have a valid url property: ", arg |-> orderer.key,
          suspect |-> orderer.url]

\* The errors expected of orderersValidation: one for an empty orderers
\* section, else one for each orderer whose url is absent or no URI, in key
\* order; none when the profile has no orderers section to go through.
OrdererErrors(profile) ==
    IF "orderers" \notin profile.sections
    THEN <<>>
    ELSE IF profile.orderers = <<>>
         THEN <<Error("Profile does not specify any ", "orderers")>>
         ELSE LET bad == SelectSeq(profile.orderers,
                                   LAMBDA orderer : ~orderer.hasUrl \/ ~isUri(orderer.url)) IN
              [n \in 1..Len(bad) |-> OrdererError(bad[n])]

\* C24: applyRule(orderersValidation, profile) leaves errorList as it was
\* with, for an empty orderers section, the one error 'Profile does not
\* specify any orderers' appended, and otherwise one error appended for
\* each orderer that has no url property or whose url is no valid URI, in
\* key order, and none for an orderer with a valid url.
C24_OneErrorPerBadOrderer ==
    [][Applied("orderersValidation") =>
          errorList' = errorList \o OrdererErrors(invocation'.profile)]_vars

\* orderersValidation has run on orderer1 without a url and orderer2 with
\* the url 'bar' while errorList held the error of an earlier applyRule.
C24_Witness ==
    /\ program = "profileValidator"
    /\ invocation.fn = "applyRule"
    /\ invocation.rule = "orderersValidation"
    /\ invocation.thrown = "returned"
    /\ Len(invocation.profile.orderers) = 2
    /\ Len(errorList) = 3
    /\ errorList[2] = Error("Orderer does not have a url property: ", "orderer1")
    /\ errorList[3] = [text |-> "Orderer does not have a valid url property: ",
                       arg |-> "orderer2", suspect |-> "bar"]

====
